---- MODULE Spec2Model ----
(***************************************************************************)
(* VKPy: the long-poll loop of VKBot.run, the handler registry and the    *)
(* Rule / Handler matching engine of src/__init__.py.                     *)
(*                                                                         *)
(* Conventions.  A value that may be missing (a key a dict may lack, an   *)
(* argument left at None) is a sequence of length 0 or 1: None is <<>>,   *)
(* Some(v) is <<v>>.  A Python str is the sequence of its characters.     *)
(* The result of a call that may raise is a record [raised, value].       *)
(***************************************************************************)
EXTENDS Integers, Sequences, FiniteSets, TLC

\* ------------------------------------------------------------------ bounds
MaxHandlers == 2    \* registrations made before run is called
MaxBatch == 2       \* updates carried by one poll response
MaxAcq == 2         \* getLongPollServer calls made by one run

\* ----------------------------------------------------------------- helpers
None == <<>>
Some(v) == <<v>>
IsSome(o) == Len(o) = 1
Val(o) == o[1]

Ret(v) == [raised |-> FALSE, value |-> v]
Raise == [raised |-> TRUE, value |-> FALSE]

SeqsUpTo(S, n) == UNION {[1..k -> S] : k \in 0..n}

\* `needle in text` for Python strings
Contains(text, needle) ==
    \E k \in 0..(Len(text) - Len(needle)) :
        \A j \in 1..Len(needle) : text[k + j] = needle[j]

\* ------------------------------------------------------------- input data
\* Texts: "/start now", "start"; the command "/start".
TxtStartNow == <<"/", "s", "t", "a", "r", "t", " ", "n", "o", "w">>
TxtStart == <<"s", "t", "a", "r", "t">>
CmdStart == <<"/", "s", "t", "a", "r", "t">>

\* The object of an update: the message fields the rules read.
Msg(text, attachments, payload) ==
    [text |-> text, attachments |-> attachments, payload |-> payload]

\* Raw updates as the long-poll server delivers them: non-empty JSON
\* objects with a type and an object.
UpdStartNow ==
    [type |-> "message_new", object |-> Msg(Some(TxtStartNow), Some(<<>>), None)]
UpdNoText ==
    [type |-> "message_new", object |-> Msg(None, None, None)]
UpdJoin ==
    [type |-> "group_join", object |-> Msg(None, None, None)]

Updates == {UpdStartNow, UpdNoText}

\* Event.__init__ for a non-empty json: the fields are read with dict.get.
\* group_id and time_created (datetime.now()) are read by nothing in the
\* module and are left out.
Event(json) == [type |-> json.type, object |-> json.object]

\* User-supplied predicates (func, func_text, func_msg) by name.
CallFunc(f, ev) ==
    CASE f = "fnTrue" -> TRUE
      [] f = "fnFalse" -> FALSE
      [] f = "fnHasText" -> IsSome(ev.object.text)
      [] OTHER -> FALSE

\* ---------------------------------------------------------------- TypeRule
TypeRule(event_type, func) ==
    [kind |-> "TypeRule", type |-> event_type, function |-> func,
     attachment_types |-> None, payload |-> None, func_text |-> None,
     func_msg |-> None, regexp |-> None, commands |-> None]

TypeRuleCheckTypeOnly(self, event) == Ret(self.type = event.type)

TypeRuleCheck(self, event) ==
    IF self.type = event.type
    THEN IF IsSome(self.function)
         THEN Ret(CallFunc(Val(self.function), event))
         ELSE Ret(TRUE)
    ELSE Ret(FALSE)

\* the user functions TypeRule.check calls, in order
TypeRuleCalls(self, event) ==
    IF self.type = event.type /\ IsSome(self.function)
    THEN <<Val(self.function)>>
    ELSE <<>>

\* ------------------------------------------------------------- MessageRule
MessageRule(attachment_types, payload, func_text, func_msg, regexp, commands) ==
    [kind |-> "MessageRule", type |-> "", function |-> None,
     attachment_types |-> attachment_types, payload |-> payload,
     func_text |-> func_text, func_msg |-> func_msg, regexp |-> regexp,
     commands |-> commands]

\* A configured argument is used when it is truthy: not None and, for a
\* list, dict or str, not empty.
Truthy(o) == IsSome(o) /\ Val(o) # <<>>

\* `if self.attachment_types:` msg.get('attachments') is None when the key
\* is missing and iterating None raises TypeError.
CondAttachments(self, msg) ==
    IF ~IsSome(msg.attachments) THEN Raise
    ELSE Ret(\E k \in 1..Len(Val(msg.attachments)) :
                \E j \in 1..Len(Val(self.attachment_types)) :
                    Val(msg.attachments)[k] = Val(self.attachment_types)[j])

\* `if self.payload:` msg.get('payload', {}) == self.payload
CondPayload(self, msg) ==
    Ret((IF IsSome(msg.payload) THEN Val(msg.payload) ELSE <<>>) = Val(self.payload))

\* `if self.regexp:` msg['text'] raises KeyError when the key is missing;
\* otherwise re.match returns a Match or None and `check |= ...` of a bool
\* with either raises TypeError.
CondRegexp(self, msg) == Raise

\* `if self.commands:` one msg['text'] lookup per command.
CondCommandsLenient(self, msg) ==
    IF ~IsSome(msg.text) THEN Ret(FALSE)
    ELSE Ret(\E k \in 1..Len(Val(self.commands)) :
                Contains(Val(msg.text), Val(self.commands)[k]))

CondCommands(self, msg) ==
    IF ~IsSome(msg.text) THEN Raise
    ELSE Ret(\E k \in 1..Len(Val(self.commands)) :
                Contains(Val(msg.text), Val(self.commands)[k]))

\* check |= <condition>, a raise ending the call.
OrInto(acc, configured, cond) ==
    IF acc.raised \/ ~configured THEN acc
    ELSE IF cond.raised THEN Raise
    ELSE Ret(acc.value \/ cond.value)

MessageRuleCheck(self, event) ==
    IF event.type = "message_new"
    THEN LET msg == event.object
             c0 == Ret(FALSE)
             c1 == OrInto(c0, Truthy(self.attachment_types), CondAttachments(self, msg))
             c2 == OrInto(c1, Truthy(self.payload), CondPayload(self, msg))
             c3 == OrInto(c2, IsSome(self.func_text),
                          Ret(CallFunc(Val(self.func_text), event)))
             c4 == OrInto(c3, IsSome(self.func_msg),
                          Ret(CallFunc(Val(self.func_msg), event)))
             c5 == OrInto(c4, Truthy(self.regexp), CondRegexp(self, msg))
             c6 == OrInto(c5, Truthy(self.commands), CondCommands(self, msg))
         IN c6
    ELSE Ret(FALSE)

\* the user functions MessageRule.check calls, in order: func_text and
\* func_msg when set, unless the attachments lookup before them raised
MessageRuleCalls(self, event) ==
    IF event.type = "message_new"
       /\ ~(Truthy(self.attachment_types)
            /\ CondAttachments(self, event.object).raised)
    THEN (IF IsSome(self.func_text) THEN <<Val(self.func_text)>> ELSE <<>>)
         \o (IF IsSome(self.func_msg) THEN <<Val(self.func_msg)>> ELSE <<>>)
    ELSE <<>>

RuleCalls(rule, event) ==
    IF rule.kind = "TypeRule" THEN TypeRuleCalls(rule, event)
    ELSE MessageRuleCalls(rule, event)

\* rule.check(event), dispatched on the rule's class.
RuleCheck(rule, event) ==
    IF rule.kind = "TypeRule" THEN TypeRuleCheck(rule, event)
    ELSE MessageRuleCheck(rule, event)

\* ----------------------------------------------------------------- Handler
Handler(func, rule) == [func |-> func, rule |-> rule]

\* The decorated functions, named in the order they are first registered.
Callbacks == {"cb1", "cb2"}
CallbacksFor(hs) == IF hs = <<>> THEN {"cb1"} ELSE Callbacks

\* The rules the registrations of this model choose from.
RuleStart == MessageRule(None, None, None, None, None, Some(<<CmdStart>>))
RuleJoin == TypeRule("group_join", None)
MessageRuleArgs == {RuleStart}
EventTypes == {"message_new", "group_join"}
RuleRefined == TypeRule("message_new", Some("fnFalse"))
CustomRules == {RuleRefined}

\* ---------------------------------------------------- long-poll protocol
\* groups.getLongPollServer results.
Descriptors ==
    {[server |-> "srvA", key |-> "keyA", ts |-> 10],
     [server |-> "srvB", key |-> "keyB", ts |-> 20]}

NoDescriptor == [server |-> "", key |-> "", ts |-> 0]

\* The GET of url.format(ts=ts): what identifies one poll request.
Request(desc, cursor) == [server |-> desc.server, key |-> desc.key, ts |-> cursor]
NoRequest == [server |-> "", key |-> "", ts |-> 0]

\* The updates arrays of the poll responses: message_new updates in every
\* arrangement, and two arrays carrying an update of another type.
Batches == SeqsUpTo(Updates, MaxBatch) \cup {<<UpdJoin>>, <<UpdJoin, UpdStartNow>>}

Response(failed, updates, newts) ==
    [failed |-> failed, updates |-> updates, ts |-> newts]
NoResponse == Response(None, <<>>, None)

\* Poll responses: successful ones (no failed key, or failed: 0) with a
\* batch and a ts, or without a ts, and failures 1, 2, 3 without or with
\* updates and ts.
Responses ==
    {Response(None, b, Some(11)) : b \in Batches}
    \cup {Response(None, b, None) : b \in {<<>>, <<UpdStartNow>>}}
    \cup {Response(Some(0), <<UpdJoin>>, Some(11))}
    \cup {Response(Some(c), <<>>, None) : c \in {1, 2, 3}}
    \cup {Response(Some(c), <<UpdStartNow>>, Some(12)) : c \in {1, 2, 3}}

\* rq.get('failed') is truthy
Failed(resp) == IsSome(resp.failed) /\ Val(resp.failed) # 0

\* ------------------------------------------------------------------- state
VARIABLES
    handlers,      \* VKBot._handlers
    pc,            \* position of run
    reload,        \* run's reload argument
    s,             \* run's s: the descriptor of the current session
    ts,            \* run's ts: the cursor
    rq,            \* run's rq: the last poll response
    i,             \* index (from 1) of the update being dispatched
    h,             \* index (from 1) of the handler offered next
    sent,          \* history: the last poll request issued
    log,           \* history: per update of the batch, handlers offered,
                   \* callbacks invoked, user functions called by the rules
    warnings,      \* history: event types warned about for the batch
    error,         \* history: what raised out of run
    nAcq,          \* history: getLongPollServer calls of this run
    acqSincePoll,  \* history: getLongPollServer calls since the last poll request
    nReg,          \* history: decorator calls
    lastReg,       \* history: the Handler built by the last decorator call
    bots,          \* the VKBot instances constructed
    owner          \* history: per handler, the instance it was registered through

vars == <<handlers, pc, reload, s, ts, rq, i, h, sent, log, warnings, error,
          nAcq, acqSincePoll, nReg, lastReg, bots, owner>>

runVars == <<pc, reload, s, ts, rq, i, h, sent, log, warnings, error, nAcq,
             acqSincePoll>>

\* The instances: run is called on Runner.
Runner == "bot1"
Bots == {"bot1", "bot2"}

NoHandler == Handler("", RuleJoin)

Init ==
    /\ handlers = <<>>
    /\ pc = "idle"
    /\ reload = FALSE
    /\ s = NoDescriptor
    /\ ts = 0
    /\ rq = NoResponse
    /\ i = 1
    /\ h = 1
    /\ sent = NoRequest
    /\ log = <<>>
    /\ warnings = <<>>
    /\ error = "none"
    /\ nAcq = 0
    /\ acqSincePoll = 0
    /\ nReg = 0
    /\ lastReg = NoHandler
    /\ bots = {Runner}
    /\ owner = <<>>

\* ------------------------------------------------------------ registration
\* self._handlers.append(handler)
RegisteredFront(hs, hd) == <<hd>> \o hs
RegisteredOnce(hs, hd) ==
    IF \E k \in 1..Len(hs) : hs[k] = hd THEN hs ELSE Append(hs, hd)

Registered(hs, hd) == Append(hs, hd)

\* handle_message_decorator(func) of the instance self
Register(hd) ==
    /\ pc = "idle"
    /\ Len(handlers) < MaxHandlers
    /\ handlers' = Registered(handlers, hd)
    /\ nReg' = nReg + 1
    /\ lastReg' = hd
    /\ \E self \in bots : owner' = Append(owner, self)
    /\ UNCHANGED bots
    /\ UNCHANGED runVars

\* bot.handle_message(**message_rule_args)(func)
HandleMessage ==
    \E func \in CallbacksFor(handlers), args \in MessageRuleArgs :
        Register(Handler(func, args))

\* bot.handle_event(rule, event_type)(func)
HandleEvent ==
    \E func \in CallbacksFor(handlers), rule \in {None} \cup {Some(r) : r \in CustomRules},
       event_type \in EventTypes :
        IF IsSome(rule)
        THEN Register(Handler(func, Val(rule)))
        ELSE Register(Handler(func, TypeRule(event_type, None)))

\* --------------------------------------------------------------------- run
\* bot.run(reload=...)
RunCall ==
    /\ pc = "idle"
    /\ \E r \in BOOLEAN : reload' = r
    /\ pc' = "acquire"
    /\ UNCHANGED <<handlers, s, ts, rq, i, h, sent, log, warnings, error, nAcq,
                   acqSincePoll, nReg, lastReg, bots, owner>>

\* s = getLongPollServer(...); ts = s['ts']; url = ...
AcquireServerKeepTs ==
    /\ pc = "acquire"
    /\ nAcq < MaxAcq
    /\ \E d \in Descriptors :
        /\ s' = d
        /\ ts' = IF nAcq = 0 THEN d.ts ELSE ts
    /\ nAcq' = nAcq + 1
    /\ acqSincePoll' = acqSincePoll + 1
    /\ pc' = "poll"
    /\ UNCHANGED <<handlers, reload, rq, i, h, sent, log, warnings, error, nReg,
                   lastReg, bots, owner>>

AcquireServer ==
    /\ pc = "acquire"
    /\ nAcq < MaxAcq
    /\ \E d \in Descriptors :
        /\ s' = d
        /\ ts' = d.ts
    /\ nAcq' = nAcq + 1
    /\ acqSincePoll' = acqSincePoll + 1
    /\ pc' = "poll"
    /\ UNCHANGED <<handlers, reload, rq, i, h, sent, log, warnings, error, nReg,
                   lastReg, bots, owner>>

\* if rq['failed'] == 1: continue  else: break
AfterFailureRetry(code) == "poll"
AfterFailureBreak(code) == "session_end"
AfterFailureDispatch(code) == "dispatch"

AfterFailure(code) == IF code = 1 THEN "poll" ELSE "session_end"

\* rq = requests.get(url.format(ts=ts)).json() and the failure test
PollBatch ==
    /\ pc = "poll"
    /\ sent' = Request(s, ts)
    /\ acqSincePoll' = 0
    /\ \E resp \in Responses :
        /\ rq' = resp
        /\ pc' = IF Failed(resp) THEN AfterFailure(Val(resp.failed)) ELSE "dispatch"
    /\ i' = 1
    /\ h' = 1
    /\ log' = <<>>
    /\ warnings' = <<>>
    /\ UNCHANGED <<handlers, reload, s, ts, error, nAcq, nReg, lastReg, bots, owner>>

\* The history entry of the pass over update i.
NoPass == [offered |-> <<>>, invoked |-> <<>>, called |-> <<>>]
CurLog == IF Len(log) < i THEN Append(log, NoPass) ELSE log
LoggedAlways(offer, invoke) ==
    [CurLog EXCEPT ![i] =
        [offered |-> Append(@.offered, offer),
         invoked |-> Append(@.invoked, offer),
         called |-> @.called \o RuleCalls(handlers[offer].rule,
                                          Event(rq.updates[i]))]]

Logged(offer, invoke) ==
    [CurLog EXCEPT ![i] =
        [offered |-> Append(@.offered, offer),
         invoked |-> IF invoke THEN Append(@.invoked, offer) ELSE @.invoked,
         called |-> @.called \o RuleCalls(handlers[offer].rule,
                                          Event(rq.updates[i]))]]

\* for handler in self._handlers: if handler.handle(ev): break
AfterHandleNoBreak(accepted, n, k) == [i |-> n, h |-> k + 1]
AfterHandleNextUpdate(accepted, n, k) == [i |-> n + 1, h |-> 1]

\* (the next update from the first handler, or the next handler)
AfterHandle(accepted, n, k) ==
    IF accepted THEN [i |-> n + 1, h |-> 1] ELSE [i |-> n, h |-> k + 1]

\* self.func(ev) returning or raising
AfterCallbackSwallow(raises) == "dispatch"

AfterCallback(raises) == IF raises THEN "raised" ELSE "dispatch"

\* handler.handle(ev) for handler h and update i
Offer ==
    /\ pc = "dispatch"
    /\ i <= Len(rq.updates)
    /\ h <= Len(handlers)
    /\ LET ev == Event(rq.updates[i])
           r == RuleCheck(handlers[h].rule, ev)
       IN IF r.raised
          THEN /\ pc' = "raised"
               /\ error' = "rule"
               /\ log' = Logged(h, FALSE)
               /\ UNCHANGED <<i, h>>
          ELSE IF r.value
          THEN \E raises \in BOOLEAN :
                /\ pc' = AfterCallback(raises)
                /\ error' = IF raises THEN "callback" ELSE error
                /\ log' = Logged(h, TRUE)
                /\ IF pc' = "raised"
                   THEN UNCHANGED <<i, h>>
                   ELSE /\ i' = AfterHandle(TRUE, i, h).i
                        /\ h' = AfterHandle(TRUE, i, h).h
          ELSE /\ i' = AfterHandle(FALSE, i, h).i
               /\ h' = AfterHandle(FALSE, i, h).h
               /\ log' = Logged(h, FALSE)
               /\ UNCHANGED <<pc, error>>
    /\ UNCHANGED <<handlers, reload, s, ts, rq, sent, warnings, nAcq,
                   acqSincePoll, nReg, lastReg, bots, owner>>

\* the for ... else: logger.warning(...)
WarnSilent ==
    /\ pc = "dispatch"
    /\ i <= Len(rq.updates)
    /\ h > Len(handlers)
    /\ log' = CurLog
    /\ i' = i + 1
    /\ h' = 1
    /\ UNCHANGED <<handlers, pc, reload, s, ts, rq, sent, warnings, error, nAcq,
                   acqSincePoll, nReg, lastReg, bots, owner>>

Warn ==
    /\ pc = "dispatch"
    /\ i <= Len(rq.updates)
    /\ h > Len(handlers)
    /\ warnings' = Append(warnings, Event(rq.updates[i]).type)
    /\ log' = CurLog
    /\ i' = i + 1
    /\ h' = 1
    /\ UNCHANGED <<handlers, pc, reload, s, ts, rq, sent, error, nAcq,
                   acqSincePoll, nReg, lastReg, bots, owner>>

\* ts = rq.get('ts', 1)
AdoptTsDefault(resp) == 1

AdoptTs(resp) == IF IsSome(resp.ts) THEN Val(resp.ts) ELSE 1

Adopt ==
    /\ pc = "dispatch"
    /\ i > Len(rq.updates)
    /\ ts' = AdoptTs(rq)
    /\ pc' = "poll"
    /\ UNCHANGED <<handlers, reload, s, rq, i, h, sent, log, warnings, error,
                   nAcq, acqSincePoll, nReg, lastReg, bots, owner>>

\* if not reload: break
AfterSessionLoop(rl) == "acquire"
AfterSessionStop(rl) == "done"

AfterSession(rl) == IF ~rl THEN "done" ELSE "acquire"

SessionEnd ==
    /\ pc = "session_end"
    /\ pc' = AfterSession(reload)
    /\ UNCHANGED <<handlers, reload, s, ts, rq, i, h, sent, log, warnings, error,
                   nAcq, acqSincePoll, nReg, lastReg, bots, owner>>

Next ==
    \/ HandleMessage
    \/ HandleEvent
    \/ RunCall
    \/ AcquireServer
    \/ PollBatch
    \/ Offer
    \/ Warn
    \/ Adopt
    \/ SessionEnd

Spec == Init /\ [][Next]_vars

\* ------------------------------------------------------- two instances
\* Two VKBot instances have been constructed before any registration.
InitShared ==
    /\ handlers = <<>>
    /\ pc = "idle"
    /\ reload = FALSE
    /\ s = NoDescriptor
    /\ ts = 0
    /\ rq = NoResponse
    /\ i = 1
    /\ h = 1
    /\ sent = NoRequest
    /\ log = <<>>
    /\ warnings = <<>>
    /\ error = "none"
    /\ nAcq = 0
    /\ acqSincePoll = 0
    /\ nReg = 0
    /\ lastReg = NoHandler
    /\ bots = Bots
    /\ owner = <<>>

SpecShared == InitShared /\ [][Next]_vars

\* self._handlers of instance b: no instance assigns the attribute, so the
\* lookup finds the list of the class, the same for every instance.
HandlersOf(b) == handlers

\* ------------------------------------------- one rule against one update
\* A dict is the sequence of its items in key order: {"cmd": "start"}, ...
PayStart == <<<<"cmd", "start">>>>
PayStop == <<<<"cmd", "stop">>>>

\* The rule configurations and the updates the rule checks are tried on.
FuncNames == {"fnTrue", "fnFalse", "fnHasText"}
OptFuncs == {None} \cup {Some(f) : f \in FuncNames}

TypeRules == {TypeRule(t, f) : t \in EventTypes, f \in OptFuncs}

MessageRules ==
    {MessageRule(a, p, ft, fm, re, c) :
        a \in {None, Some(<<>>), Some(<<"photo">>)},
        p \in {None, Some(PayStart)},
        ft \in {None, Some("fnTrue"), Some("fnFalse")},
        fm \in {None, Some("fnHasText")},
        re \in {None, Some(CmdStart)},
        c \in {None, Some(<<CmdStart>>), Some(<<TxtStart, CmdStart>>)}}

Messages ==
    {Msg(tx, a, p) :
        tx \in {None, Some(TxtStartNow), Some(TxtStart)},
        a \in {None, Some(<<>>), Some(<<"photo">>), Some(<<"doc", "photo">>)},
        p \in {None, Some(PayStart), Some(PayStop)}}

RuleUpdates ==
    {[type |-> "message_new", object |-> m] : m \in Messages}
    \cup {[type |-> "group_join", object |-> m] :
            m \in {Msg(None, None, None), Msg(Some(TxtStart), Some(<<>>), None)}}

\* One handler is registered and run has received a batch of one update.
InitRule ==
    /\ \E r \in TypeRules \cup MessageRules :
        /\ handlers = <<Handler("cb1", r)>>
        /\ lastReg = Handler("cb1", r)
    /\ \E u \in RuleUpdates : rq = Response(None, <<u>>, Some(11))
    /\ pc = "dispatch"
    /\ reload = FALSE
    /\ s = [server |-> "srvA", key |-> "keyA", ts |-> 10]
    /\ ts = 10
    /\ i = 1
    /\ h = 1
    /\ sent = [server |-> "srvA", key |-> "keyA", ts |-> 10]
    /\ log = <<>>
    /\ warnings = <<>>
    /\ error = "none"
    /\ nAcq = 1
    /\ acqSincePoll = 0
    /\ nReg = 1
    /\ bots = {Runner}
    /\ owner = <<Runner>>

NextRule ==
    \/ Offer
    \/ Warn
    \/ Adopt

SpecRule == InitRule /\ [][NextRule]_vars

\* ------------------------------------------------------------ vocabulary
\* rule.check(ev) returned a truthy value for this handler and raw update
Accepts(hd, json) ==
    LET r == RuleCheck(hd.rule, Event(json)) IN ~r.raised /\ r.value

\* rule.check(ev) returned a falsy value
Rejects(hd, json) ==
    LET r == RuleCheck(hd.rule, Event(json)) IN ~r.raised /\ ~r.value

FirstN(n) == [j \in 1..n |-> j]

\* -------------------------------------------------------------------- C1
\* C1: first-match-wins dispatch.  For every update dispatched by run the
\* handlers are offered the Event in registration order, at most one
\* callback is invoked, it is the callback of the earliest-registered
\* handler whose rule.check is true, and no handler registered after it is
\* checked; a pass that ends without a callback has offered the Event to
\* every handler and each rejected it.
C1_FirstMatchWins ==
    \A k \in 1..Len(log) :
        LET e == log[k]
            json == rq.updates[k]
        IN /\ e.offered = FirstN(Len(e.offered))
           /\ Len(e.offered) <= Len(handlers)
           /\ Len(e.invoked) <= 1
           /\ \A j \in 1..(Len(e.offered) - 1) : Rejects(handlers[j], json)
           /\ e.invoked # <<>> =>
                /\ e.invoked[1] = Len(e.offered)
                /\ Accepts(handlers[e.invoked[1]], json)
           /\ (k < i /\ e.invoked = <<>>) =>
                /\ Len(e.offered) = Len(handlers)
                /\ \A j \in 1..Len(handlers) : Rejects(handlers[j], json)

\* Two handlers accept the same update; the first one's callback ran, the
\* second was not offered the Event and the pass is over.
C1_Witness ==
    /\ Len(handlers) = 2
    /\ Len(log) >= 1
    /\ i > 1
    /\ Accepts(handlers[1], rq.updates[1])
    /\ Accepts(handlers[2], rq.updates[1])
    /\ log[1].offered = <<1>>
    /\ log[1].invoked = <<1>>

\* -------------------------------------------------------------------- C2
\* the previous poll request was issued in the current session
InSession == sent # NoRequest /\ acqSincePoll = 0

\* every update of the batch has had its dispatch pass
BatchDone == i = Len(rq.updates) + 1 /\ Len(log) = Len(rq.updates)

\* C2: cursor chaining.  Within one polling session, when the response to
\* a poll request carried no failure code the next poll request sends the
\* ts of that response, or 1 when the response has no ts; and the cursor
\* changes during dispatch only once every update of the batch has been
\* dispatched.
C2_CursorChaining ==
    [][/\ (pc = "poll" /\ InSession /\ ~Failed(rq)) =>
            sent'.ts = (IF IsSome(rq.ts) THEN Val(rq.ts) ELSE 1)
       /\ (pc = "dispatch" /\ ts' # ts) => BatchDone]_vars

\* A successful batch of two updates has been dispatched, its ts adopted,
\* and the next poll request of the session is about to be sent.
C2_Witness ==
    /\ pc = "poll"
    /\ InSession
    /\ ~Failed(rq)
    /\ Len(rq.updates) = 2
    /\ BatchDone
    /\ rq.ts = Some(11)
    /\ ts = 11
    /\ sent.ts # 11

\* -------------------------------------------------------------------- C3
\* the last poll response carried a failure code other than 0 and 1
FailedOther(resp) == Failed(resp) /\ Val(resp.failed) # 1

\* What holds of every configuration after a failure code other than 1:
\* the poll that receives it ends the session, an acquisition is followed
\* by a poll request, and a poll request that follows such a response
\* comes after exactly one getLongPollServer call.
RenewalSteps ==
    /\ (pc = "poll" /\ FailedOther(rq')) => pc' = "session_end"
    /\ (pc = "acquire") => (pc' = "poll" /\ nAcq' = nAcq + 1)
    /\ (pc = "poll" /\ sent # NoRequest /\ FailedOther(rq)) => acqSincePoll = 1

\* C3 as stated: for every configuration of run, a poll response whose
\* failure code is non-zero and different from 1 is followed by exactly one
\* getLongPollServer call and then by the next poll request.
C3_Original ==
    [][/\ RenewalSteps
       /\ (pc = "session_end") => pc' = "acquire"]_vars

\* C3 amended: the same when run was called with reload true; with reload
\* false run returns at that point, without another getLongPollServer call
\* or poll request.
C3_Renewal ==
    [][/\ RenewalSteps
       /\ (pc = "session_end" /\ reload) => pc' = "acquire"
       /\ (pc = "session_end" /\ ~reload) => pc' = "done"
       /\ (pc = "done") => FALSE]_vars

\* reload is true, a failure 2 or 3 ended the first session, the server was
\* acquired once more and the next poll request is about to be sent.
C3_Witness ==
    /\ reload
    /\ pc = "poll"
    /\ sent # NoRequest
    /\ FailedOther(rq)
    /\ nAcq = 2
    /\ acqSincePoll = 1

\* -------------------------------------------------------------------- C4
\* the last poll response carried failure code 1
FailedOne(resp) == Failed(resp) /\ Val(resp.failed) = 1

\* C4: a poll response with failure code 1 leaves run at the poll request
\* with the cursor, the descriptor and the count of getLongPollServer calls
\* as they were, and the step that follows is a poll request with the ts,
\* server and key of the failed request; run has not returned.
C4_RetrySameCursor ==
    [][/\ (pc = "poll" /\ FailedOne(rq')) =>
            (pc' = "poll" /\ ts' = ts /\ s' = s /\ nAcq' = nAcq)
       /\ (InSession /\ FailedOne(rq)) =>
            (pc = "poll" /\ sent' = sent /\ nAcq' = nAcq /\ ts' = ts)]_vars

\* The cursor 11 was adopted, the poll request that sent it was answered
\* with failure code 1 (and a ts of 12), and run is at the poll request
\* again with the cursor still 11.
C4_Witness ==
    /\ pc = "poll"
    /\ InSession
    /\ FailedOne(rq)
    /\ rq.ts = Some(12)
    /\ ts = 11
    /\ sent = [server |-> s.server, key |-> s.key, ts |-> 11]

\* -------------------------------------------------------------------- C5
\* C5: with reload false getLongPollServer is called at most once, exactly
\* once by the time run returns, and when the one polling session ends the
\* next step of run is to return, not to acquire a server again.
C5_SinglePass ==
    /\ [](~reload => /\ nAcq <= 1
                     /\ (pc \in {"poll", "dispatch", "session_end", "done"}) => nAcq = 1
                     /\ (pc = "acquire") => nAcq = 0)
    /\ [][(~reload /\ pc = "session_end") => pc' = "done"]_vars

\* reload is false and run has returned after a session of several polls.
C5_Witness ==
    /\ ~reload
    /\ pc = "done"
    /\ nAcq = 1
    /\ sent.ts = 11
    /\ FailedOther(rq)

\* -------------------------------------------------------------------- C6
\* C6: with reload true run never returns normally, whatever the poll
\* responses are.
C6_NeverReturns == reload => pc # "done"

\* reload is true, two sessions have ended with a failure code other than
\* 1 and run is about to acquire a server again.
C6_Witness ==
    /\ reload
    /\ pc = "acquire"
    /\ nAcq = 2
    /\ FailedOther(rq)

\* -------------------------------------------------------------------- C7
\* rq is a successful response whose batch is being dispatched, or has
\* just been dispatched
BatchInHand ==
    /\ pc \in {"dispatch", "poll", "raised"}
    /\ InSession
    /\ ~Failed(rq)

\* every handler's rule.check returns false for every update of the batch
NoneAccepted ==
    \A k \in 1..Len(rq.updates) :
        \A j \in 1..Len(handlers) : Rejects(handlers[j], rq.updates[k])

\* C7: while and after a successful batch none of whose updates any
\* handler accepts is dispatched, nothing has raised, no callback has been
\* invoked and there is exactly one unhandled-event warning per update
\* dispatched so far, in the order of the updates, n of them once the
\* batch is over; and whatever was handled, the step that ends a batch
\* sets the cursor to the ts of its response (1 when it has none) and
\* leaves run at the poll request.
C7_UnhandledBatch ==
    /\ []((BatchInHand /\ NoneAccepted) =>
            /\ pc # "raised"
            /\ \A k \in 1..Len(log) : log[k].invoked = <<>>
            /\ warnings = [k \in 1..(i - 1) |-> rq.updates[k].type]
            /\ (pc = "poll") => Len(warnings) = Len(rq.updates))
    /\ []((BatchInHand /\ pc = "poll") =>
            ts = (IF IsSome(rq.ts) THEN Val(rq.ts) ELSE 1))
    /\ [][(pc = "dispatch" /\ i > Len(rq.updates)) => pc' = "poll"]_vars

\* A batch of two updates of different types, none accepted by the one
\* registered handler, has been dispatched: two warnings in order, the
\* cursor advanced to the batch's ts.
C7_Witness ==
    /\ BatchInHand
    /\ pc = "poll"
    /\ Len(handlers) >= 1
    /\ NoneAccepted
    /\ rq.updates = <<UpdJoin, UpdStartNow>>
    /\ warnings = <<"group_join", "message_new">>
    /\ ts = 11
    /\ sent.ts # 11

\* -------------------------------------------------------------------- C8
\* C8: a callback that raises is not caught.  The error leaves run: run is
\* at no further position, so no step follows (no later handler is offered
\* the Event, no later update is dispatched, no poll or getLongPollServer
\* request is issued), and the history ends with that callback: the pass
\* of update i, handler h the last offered and the one invoked.
C8_CallbackErrorPropagates ==
    /\ [](error = "callback" =>
            /\ pc = "raised"
            /\ Len(log) = i
            /\ log[i].offered = FirstN(h)
            /\ log[i].invoked = <<h>>)
    /\ [][error # "callback"]_vars

\* The first handler's callback raised on the first of two updates, with a
\* second handler registered that accepts the same update.
C8_Witness ==
    /\ pc = "raised"
    /\ error = "callback"
    /\ i = 1
    /\ h = 1
    /\ Len(rq.updates) = 2
    /\ Len(handlers) = 2
    /\ Accepts(handlers[2], rq.updates[1])

\* -------------------------------------------------------------------- C9
\* C9: registration is append-only.  A decorator call appends exactly one
\* Handler, the one it built, at the end of the handler sequence and
\* leaves the handlers registered before in place; no other step (none of
\* run's) changes the sequence.
C9_AppendOnly ==
    [][/\ (nReg' # nReg) =>
            /\ nReg' = nReg + 1
            /\ Len(handlers') = Len(handlers) + 1
            /\ \A k \in 1..Len(handlers) : handlers'[k] = handlers[k]
            /\ handlers'[Len(handlers')] = lastReg'
       /\ (nReg' = nReg) => handlers' = handlers]_vars

\* handle_message then handle_event registered two different handlers, and
\* run is dispatching with the sequence in that order.
C9_Witness ==
    /\ nReg = 2
    /\ Len(handlers) = 2
    /\ handlers[1].rule.kind = "MessageRule"
    /\ handlers[2].rule.kind = "TypeRule"
    /\ lastReg = handlers[2]
    /\ pc = "dispatch"
    /\ Len(log) >= 1

\* ------------------------------------------------------------------- C10
\* the decorator call of this step builds a Handler equal to a registered one
RepeatedRegistration ==
    /\ nReg' = nReg + 1
    /\ \E k \in 1..Len(handlers) : handlers[k] = lastReg'

\* C10 as stated: registering the same callback with the same rule
\* parameters a second time leaves the handler sequence as it was after the
\* first registration.
C10_Original == [][RepeatedRegistration => handlers' = handlers]_vars

\* C10 amended: the second registration appends a second, equal Handler at
\* the end: the sequence is one longer and its earlier entries are as they
\* were.
C10_RepeatAppends ==
    [][RepeatedRegistration =>
            /\ Len(handlers') = Len(handlers) + 1
            /\ handlers' = Append(handlers, lastReg')]_vars

\* The same callback was registered twice with the same rule.
C10_Witness ==
    /\ nReg = 2
    /\ Len(handlers) = 2
    /\ handlers[1] = handlers[2]

\* ------------------------------------------------------------------- C11
\* the pass recorded in entry e is over: a callback was invoked, or every
\* handler was offered the Event
PassOver(e) == e.invoked # <<>> \/ Len(e.offered) = Len(handlers)

\* callbacks invoked so far for the batch
Invocations(l) ==
    {x \in (1..Len(l)) \X (1..Len(handlers)) :
        \E m \in 1..Len(l[x[1]].invoked) : l[x[1]].invoked[m] = x[2]}

\* C11: dispatch is sequential and ordered.  The passes of a batch are
\* started in the array order of its updates, one at a time: while run
\* dispatches, the passes before update i are over and only the pass of
\* update i may be under way; a step of the dispatch works on the last pass
\* started or starts the next one once that pass is over, with at most one
\* callback invoked per step; and the poll request that follows a
\* successful response is issued only with every pass of its batch over.
C11_SequentialDispatch ==
    /\ [](pc = "dispatch" =>
            /\ Len(log) \in {i - 1, i}
            /\ Len(log) <= Len(rq.updates)
            /\ \A k \in 1..Len(log) : k < i => PassOver(log[k]))
    /\ []((pc = "poll" /\ InSession /\ ~Failed(rq)) =>
            /\ BatchDone
            /\ \A k \in 1..Len(log) : PassOver(log[k]))
    /\ [][pc = "dispatch" =>
            /\ Len(log') \in {Len(log), Len(log) + 1}
            /\ \A k \in 1..(Len(log) - 1) : log'[k] = log[k]
            /\ (Len(log') = Len(log) + 1 /\ Len(log) > 0) => PassOver(log[Len(log)])
            /\ i' \in {i, i + 1}
            /\ Cardinality(Invocations(log')) <= Cardinality(Invocations(log)) + 1]_vars

\* Two handlers, two updates: the first pass offered the Event to both
\* handlers and is over, the second has offered it to the first handler.
C11_Witness ==
    /\ pc = "dispatch"
    /\ Len(handlers) = 2
    /\ Len(rq.updates) = 2
    /\ i = 2
    /\ Len(log) = 2
    /\ Len(log[1].offered) = 2
    /\ Len(log[2].offered) = 1
    /\ log[2].invoked = <<>>

\* ------------------------------------------------------------------- C12
\* the one handler has been offered the one update
Offered1 == Len(log) >= 1 /\ Len(log[1].offered) >= 1

\* C12: for a TypeRule R and an Event E, R.check(E) returns (it does not
\* raise), it is truthy (the handler's callback is invoked) exactly when
\* E.type equals R's event_type and R has no refinement function or that
\* function is truthy on E, and the refinement function is not called when
\* the types differ.
C12_TypeRuleCheck ==
    (Offered1 /\ handlers[1].rule.kind = "TypeRule") =>
        LET R == handlers[1].rule
            E == Event(rq.updates[1])
        IN /\ error # "rule"
           /\ (log[1].invoked = <<1>>) <=>
                (E.type = R.type
                 /\ (R.function = None \/ CallFunc(Val(R.function), E)))
           /\ (log[1].invoked = <<>>) <=> ~(log[1].invoked = <<1>>)
           /\ (E.type # R.type) => log[1].called = <<>>
           /\ (E.type = R.type /\ R.function # None) =>
                log[1].called = <<Val(R.function)>>

\* A TypeRule with a refinement function that is truthy on the event: the
\* function was called and the callback invoked.
C12_Witness ==
    /\ Offered1
    /\ handlers[1].rule = TypeRule("message_new", Some("fnHasText"))
    /\ rq.updates[1].type = "message_new"
    /\ log[1].called = <<"fnHasText">>
    /\ log[1].invoked = <<1>>

\* ------------------------------------------------------------------- C13
\* re.match(pattern, text) for a pattern without metacharacters: text
\* starts with pattern
PrefixMatch(pattern, text) ==
    /\ Len(pattern) <= Len(text)
    /\ \A j \in 1..Len(pattern) : text[j] = pattern[j]

\* The conditions of a MessageRule R on a message that has its text and
\* attachments fields, as section 4.1 of the specification lists them; a
\* condition that is not configured contributes nothing.
ConfiguredConditions(R, E) ==
    {c \in {"attachments", "payload", "func_text", "func_msg", "regexp",
            "commands"} :
        CASE c = "attachments" -> Truthy(R.attachment_types)
          [] c = "payload" -> Truthy(R.payload)
          [] c = "func_text" -> IsSome(R.func_text)
          [] c = "func_msg" -> IsSome(R.func_msg)
          [] c = "regexp" -> Truthy(R.regexp)
          [] c = "commands" -> Truthy(R.commands)}

ConditionHolds(c, R, E) ==
    LET msg == E.object
    IN CASE c = "attachments" ->
              \E k \in 1..Len(Val(msg.attachments)) :
                  \E j \in 1..Len(Val(R.attachment_types)) :
                      Val(msg.attachments)[k] = Val(R.attachment_types)[j]
         [] c = "payload" ->
              (IF IsSome(msg.payload) THEN Val(msg.payload) ELSE <<>>) = Val(R.payload)
         [] c = "func_text" -> CallFunc(Val(R.func_text), E)
         [] c = "func_msg" -> CallFunc(Val(R.func_msg), E)
         [] c = "regexp" -> PrefixMatch(Val(R.regexp), Val(msg.text))
         [] c = "commands" ->
              \E k \in 1..Len(Val(R.commands)) :
                  Contains(Val(msg.text), Val(R.commands)[k])

WellFormed(E) == IsSome(E.object.text) /\ IsSome(E.object.attachments)

\* What C13 says of the rules in Rs: check is false for an Event that is
\* not a message_new, and for a message_new Event (with text and
\* attachments) it returns the OR of the configured conditions.
OrOfConditions(Rs) ==
    (Offered1 /\ handlers[1].rule.kind = "MessageRule" /\ handlers[1].rule \in Rs) =>
        LET R == handlers[1].rule
            E == Event(rq.updates[1])
        IN /\ (E.type # "message_new") =>
                (error # "rule" /\ log[1].invoked = <<>>)
           /\ (E.type = "message_new" /\ WellFormed(E)) =>
                /\ error # "rule"
                /\ (log[1].invoked = <<1>>) <=>
                      \E c \in ConfiguredConditions(R, E) : ConditionHolds(c, R, E)

\* C13: MessageRule.check is false for every Event that is not a
\* message_new; for a message_new Event it equals the logical OR of the
\* configured conditions (attachment type, payload equality, func_text,
\* func_msg, regexp prefix match, command substring): that one condition's
\* truth value when one is configured, false when none is.
C13_OrOfConditions == OrOfConditions(MessageRules)

\* The same for the rules that configure no regexp.
C13_WithoutRegexp == OrOfConditions({R \in MessageRules : ~Truthy(R.regexp)})

\* ------------------------------------------------------------------- C14
\* how many times handler j's callback was invoked in the pass of entry e
TimesInvoked(e, j) == Cardinality({m \in 1..Len(e.invoked) : e.invoked[m] = j})

\* C14: Handler.handle(event) invokes its callback exactly once with that
\* event when rule.check(event) is truthy and then returns true (run
\* leaves the loop over the handlers; a callback that raises is C8's
\* case); when rule.check(event) is falsy it invokes nothing, returns false
\* (run goes on to the next handler) and changes nothing else.
C14_HandleContract ==
    /\ [](\A k \in 1..Len(log) :
            \A m \in 1..Len(log[k].offered) :
                LET j == log[k].offered[m]
                IN /\ Accepts(handlers[j], rq.updates[k]) =>
                        TimesInvoked(log[k], j) = 1
                   /\ ~Accepts(handlers[j], rq.updates[k]) =>
                        TimesInvoked(log[k], j) = 0)
    /\ [][(pc = "dispatch" /\ i <= Len(rq.updates) /\ h <= Len(handlers)) =>
            /\ (Accepts(handlers[h], rq.updates[i]) /\ pc' = "dispatch") =>
                    (i' = i + 1 /\ h' = 1)
            /\ Rejects(handlers[h], rq.updates[i]) =>
                    /\ pc' = "dispatch"
                    /\ i' = i
                    /\ h' = h + 1
                    /\ Invocations(log') = Invocations(log)
                    /\ UNCHANGED <<handlers, warnings, ts, rq, error>>]_vars

\* The first handler's rule rejected the update and nothing was invoked
\* for it; the second handler's rule accepted it, its callback ran once
\* and the pass ended.
C14_Witness ==
    /\ Len(handlers) = 2
    /\ Len(log) >= 1
    /\ i = 2
    /\ Rejects(handlers[1], rq.updates[1])
    /\ Accepts(handlers[2], rq.updates[1])
    /\ log[1].offered = <<1, 2>>
    /\ log[1].invoked = <<2>>

\* ------------------------------------------------------------------- C15
\* C15: registering a Handler through one VKBot instance leaves the
\* handler sequence that every other instance's run loop uses unchanged.
C15_OwnRegistry ==
    [][\A b \in bots :
        (nReg' = nReg + 1 /\ owner'[Len(owner')] # b) =>
            HandlersOf(b)' = HandlersOf(b)]_vars

\* ------------------------------------------------------------------- C16
\* C16: malformed message payloads are a hard failure.  For a message_new
\* Event, MessageRule.check raises, and the error leaves run (no callback,
\* no further step), when attachment_types is configured and the message
\* has no attachments field, or when regexp or commands is configured and
\* the message has no text field; a missing payload field never raises:
\* the check ends as it does for the message with an empty payload
\* mapping, and a rule that configures only a payload rejects it.
C16_MalformedRaises ==
    /\ []((/\ Offered1
           /\ handlers[1].rule.kind = "MessageRule"
           /\ rq.updates[1].type = "message_new") =>
            LET R == handlers[1].rule
                E == Event(rq.updates[1])
                msg == E.object
                emptied == RuleCheck(R, [E EXCEPT !.object.payload = Some(<<>>)])
            IN /\ (\/ Truthy(R.attachment_types) /\ ~IsSome(msg.attachments)
                   \/ Truthy(R.regexp) /\ ~IsSome(msg.text)
                   \/ Truthy(R.commands) /\ ~IsSome(msg.text)) =>
                    (pc = "raised" /\ error = "rule" /\ log[1].invoked = <<>>)
               /\ ~IsSome(msg.payload) =>
                    /\ (error = "rule") <=> emptied.raised
                    /\ (log[1].invoked = <<1>>) <=> (~emptied.raised /\ emptied.value)
               /\ (/\ ~IsSome(msg.payload)
                   /\ R = MessageRule(None, R.payload, None, None, None, None)) =>
                    (error # "rule" /\ log[1].invoked = <<>>))
    /\ [][error # "rule"]_vars

\* A rule with commands only met a message_new update without a text
\* field: the KeyError left run.
C16_Witness ==
    /\ Offered1
    /\ handlers[1].rule = MessageRule(None, None, None, None, None, Some(<<CmdStart>>))
    /\ rq.updates[1].type = "message_new"
    /\ ~IsSome(rq.updates[1].object.text)
    /\ pc = "raised"
    /\ error = "rule"

\* ------------------------------------------------------------------- C17
\* C17: every poll request carries the server and key of the most recent
\* getLongPollServer result, and the first poll request after an
\* acquisition carries the ts of that result, whatever the cursor of the
\* session before was.
C17_FreshDescriptor ==
    /\ [](InSession => (sent.server = s.server /\ sent.key = s.key))
    /\ [][/\ (pc = "acquire") => (s' \in Descriptors /\ acqSincePoll' >= 1)
          /\ (pc = "poll" /\ acqSincePoll >= 1) =>
                sent' = [server |-> s.server, key |-> s.key, ts |-> s.ts]
          /\ (pc # "acquire") => s' = s]_vars

\* The first session adopted a cursor and ended; the first poll request of
\* the second session went to the new descriptor with its ts.
C17_Witness ==
    /\ nAcq = 2
    /\ InSession
    /\ pc = "dispatch"
    /\ sent = [server |-> s.server, key |-> s.key, ts |-> s.ts]
    /\ ts = s.ts

\* ------------------------------------------------------------------- C18
\* C18: with reload false run returns normally only in the step that
\* follows a poll response whose failure code is neither 0 nor 1: the
\* session ends only on such a response, a successful or code-1 response
\* leaves run at the dispatch or at the poll request, where the next
\* request can always be issued.
C18_StopOnlyAtSessionEnd ==
    /\ [](pc \in {"session_end", "done"} => (FailedOther(rq) /\ InSession))
    /\ [](pc = "done" => ~reload)
    /\ [](pc = "poll" => ENABLED PollBatch)
    /\ [][/\ (pc' = "done") => pc = "session_end"
          /\ (pc = "poll" /\ ~FailedOther(rq')) => pc' \in {"poll", "dispatch"}
          /\ (pc = "dispatch") => pc' \in {"dispatch", "poll", "raised"}]_vars

\* reload is false; after successful and code-1 responses kept the session
\* going (the cursor came from a response without ts), failure 3 ended it
\* and run returned.
C18_Witness ==
    /\ ~reload
    /\ pc = "done"
    /\ rq.failed = Some(3)
    /\ sent.ts = 1

\* ------------------------------------------------------------------- C19
\* the response carries a failure code that is not 0
NonZeroFailure(resp) == resp.failed # None /\ resp.failed # Some(0)

\* C19: a poll response with a non-zero failure code causes no dispatch,
\* even when it carries updates: no pass is started (no Event, no handler
\* offered), no warning is emitted, nothing raises, and the cursor stays
\* what the request sent until the next acquisition.
C19_FailureNoDispatch ==
    /\ [](NonZeroFailure(rq) =>
            /\ log = <<>>
            /\ warnings = <<>>
            /\ pc \notin {"dispatch", "raised"}
            /\ InSession => ts = sent.ts)
    /\ [][NonZeroFailure(rq) => (ts' = ts \/ pc = "acquire")]_vars

\* A code-1 response that carried an update the first handler accepts and
\* a ts of 12: nothing was dispatched and the cursor is still 11.
C19_Witness ==
    /\ pc = "poll"
    /\ InSession
    /\ rq = Response(Some(1), <<UpdStartNow>>, Some(12))
    /\ Len(handlers) >= 1
    /\ Accepts(handlers[1], UpdStartNow)
    /\ log = <<>>
    /\ warnings = <<>>
    /\ ts = 11
====
